---- MODULE Spec2Model ----
(***************************************************************************)
(* The nyan lexer token (nyan/token.h): the token_type enumeration, the    *)
(* two constexpr classification functions token_type_str and               *)
(* token_needs_payload, and the Token value class with its constructors    *)
(* and query methods.                                                      *)
(*                                                                         *)
(* Strings are modelled as sequences of one-character strings, so that     *)
(* size(), emptiness and the characters of a label can be inspected.       *)
(*                                                                         *)
(* token.h only declares the members of Token; their bodies live in        *)
(* token.cpp.  The definitions that model those bodies follow the          *)
(* declarations and doc comments of token.h and the specification's        *)
(* description of the operation.                                           *)
(***************************************************************************)
EXTENDS Integers, Sequences, FiniteSets, TLC

VARIABLES tok, ctor, args, call

vars == <<tok, ctor, args, call>>

(***************************************************************************)
(* Bounds of the model.                                                    *)
(***************************************************************************)
MaxLine == 2

MaxPayloadLen == 1

\* the characters payload texts are drawn from
PayloadChars == {"f", "4"}

\* std::shared_ptr<File> values handed to the constructors
Files == {"file"}

\* column offsets and lexeme lengths handed to the constructors
Offsets == {0}

Lengths == {1}

(***************************************************************************)
(* enum class token_type                                                   *)
(***************************************************************************)
token_type ==
    {"AS", "AT", "BANG", "COLON", "COMMA", "DEDENT", "DOT", "ENDFILE",
     "ENDLINE", "ELLIPSIS", "FLOAT", "FROM", "ID", "IMPORT", "INDENT",
     "INF", "INT", "INVALID", "LANGLE", "LBRACE", "LBRACKET", "LPAREN",
     "OPERATOR", "PASS", "RANGLE", "RBRACE", "RBRACKET", "RPAREN", "STRING"}

\* a value of the enum's underlying type that names no enumerator
\* (static_cast<token_type>(n) for an n outside the list)
Unenumerated == "static_cast<token_type>(29)"

\* leaving the switch without hitting a case
NoReturn == <<>>

(***************************************************************************)
(* token_type_str: the switch, one return per case                         *)
(***************************************************************************)
token_type_str_switch(type) ==
    CASE
       type = "AS" -> <<"a", "s">>
    [] type = "AT" -> <<"@">>
    [] type = "BANG" -> <<"!">>
    [] type = "COLON" -> <<"c", "o", "l", "o", "n">>
    [] type = "COMMA" -> <<"c", "o", "m", "m", "a">>
    [] type = "DEDENT" -> <<"d", "e", "d", "e", "n", "t", "a", "t", "i", "o", "n">>
    [] type = "DOT" -> <<"d", "o", "t">>
    [] type = "ELLIPSIS" -> <<"e", "l", "l", "i", "p", "s", "i", "s">>
    [] type = "ENDFILE" -> <<"e", "n", "d", " ", "o", "f", " ", "f", "i", "l", "e">>
    [] type = "ENDLINE" -> <<"e", "n", "d", " ", "o", "f", " ", "l", "i", "n", "e">>
    [] type = "FLOAT" -> <<"f", "l", "o", "a", "t">>
    [] type = "FROM" -> <<"f", "r", "o", "m">>
    [] type = "ID" -> <<"i", "d", "e", "n", "t", "i", "f", "i", "e", "r">>
    [] type = "IMPORT" -> <<"i", "m", "p", "o", "r", "t">>
    [] type = "INDENT" -> <<"i", "n", "d", "e", "n", "t", "a", "t", "i", "o", "n">>
    [] type = "INF" -> <<"i", "n", "f">>
    [] type = "INT" -> <<"i", "n", "t">>
    [] type = "INVALID" -> <<"i", "n", "v", "a", "l", "i", "d">>
    [] type = "LANGLE" -> <<"'", "<", "'">>
    [] type = "LBRACE" -> <<"'", "{", "'">>
    [] type = "LBRACKET" -> <<"'", "[", "'">>
    [] type = "LPAREN" -> <<"'", "(", "'">>
    [] type = "OPERATOR" -> <<"o", "p", "e", "r", "a", "t", "o", "r">>
    [] type = "PASS" -> <<"p", "a", "s", "s">>
    [] type = "RANGLE" -> <<"'", ">", "'">>
    [] type = "RBRACE" -> <<"'", "}", "'">>
    [] type = "RBRACKET" -> <<"'", "]", "'">>
    [] type = "RPAREN" -> <<"'", ")", "'">>
    [] type = "STRING" -> <<"s", "t", "r", "i", "n", "g">>
    [] OTHER -> NoReturn

\* the fallback return after the switch
unhandled_token_type ==
    <<"u", "n", "h", "a", "n", "d", "l", "e", "d", " ",
      "t", "o", "k", "e", "n", "_", "t", "y", "p", "e">>

\* a case returning the label of its neighbour (copy-paste slip)
token_type_str_dup(type) ==
    IF type = "INF"
    THEN token_type_str_switch("INT")
    ELSE IF token_type_str_switch(type) # NoReturn
         THEN token_type_str_switch(type)
         ELSE unhandled_token_type

\* a case missing from the switch: INVALID falls through to the fallback
token_type_str_nocase(type) ==
    IF type # "INVALID" /\ token_type_str_switch(type) # NoReturn
    THEN token_type_str_switch(type)
    ELSE unhandled_token_type

\* a bracket label written without its quotes
token_type_str_unquoted(type) ==
    IF type = "RBRACE"
    THEN <<"}">>
    ELSE IF token_type_str_switch(type) # NoReturn
         THEN token_type_str_switch(type)
         ELSE unhandled_token_type

\* token_type_str: the switch, then the fallback return after it
token_type_str(type) ==
    IF token_type_str_switch(type) # NoReturn
    THEN token_type_str_switch(type)
    ELSE unhandled_token_type

\* a payload case missing from the switch
token_needs_payload_noinf(type) ==
    CASE type = "FLOAT" -> TRUE
      [] type = "ID" -> TRUE
      [] type = "INT" -> TRUE
      [] type = "OPERATOR" -> TRUE
      [] type = "STRING" -> TRUE
      [] OTHER -> FALSE

(***************************************************************************)
(* token_needs_payload                                                     *)
(***************************************************************************)
token_needs_payload(type) ==
    CASE type = "FLOAT" -> TRUE
      [] type = "ID" -> TRUE
      [] type = "INF" -> TRUE
      [] type = "INT" -> TRUE
      [] type = "OPERATOR" -> TRUE
      [] type = "STRING" -> TRUE
      [] OTHER -> FALSE

(***************************************************************************)
(* Inputs the callers draw from                                            *)
(***************************************************************************)
\* std::string values up to MaxPayloadLen characters, the empty string included
Payloads == UNION {[1..n -> PayloadChars] : n \in 0..MaxPayloadLen}

\* Location{file, line, line_offset, length}
Locations ==
    [file : Files, line : 1..MaxLine, line_offset : Offsets, length : Lengths]

\* the slot holds no Token object
NoToken == [destroyed |-> TRUE]

\* no constructor arguments recorded
NoArgs == [none |-> TRUE]

\* a default-constructed Location
Location_default == [file |-> "nullptr", line |-> 0, line_offset |-> 0, length |-> 0]

(***************************************************************************)
(* class Token: constructors                                               *)
(***************************************************************************)
\* Token(): the INVALID sentinel, no location, empty value
Token_default ==
    [location |-> Location_default, type |-> "INVALID", value |-> <<>>]

\* Token(file, line, line_offset, length, type): value stays the empty string.
\* No category is refused: choosing the matching constructor is left to the caller.
Token_type(file, line, line_offset, length, type) ==
    [location |-> [file |-> file, line |-> line,
                   line_offset |-> line_offset, length |-> length],
     type |-> type,
     value |-> <<>>]

\* a payload constructor that forgets to store its value argument
Token_value_dropped(file, line, line_offset, length, type, value) ==
    [location |-> [file |-> file, line |-> line,
                   line_offset |-> line_offset, length |-> length],
     type |-> type,
     value |-> <<>>]

\* Token(file, line, line_offset, length, type, value): value is stored as given.
\* No category is refused.
Token_value(file, line, line_offset, length, type, value) ==
    [location |-> [file |-> file, line |-> line,
                   line_offset |-> line_offset, length |-> length],
     type |-> type,
     value |-> value]

(***************************************************************************)
(* class Token: const member functions                                     *)
(***************************************************************************)
\* get(): the stored payload string, whatever the token's type
get(t) == t.value

\* exists(): a payload exists iff the stored string is not empty
exists(t) == Len(get(t)) > 0

\* an endmarker test that forgets the end of line
is_endmarker_eof_only(t) == t.type = "ENDFILE"

\* is_endmarker(): EOL or EOF
is_endmarker(t) == t.type \in {"ENDFILE", "ENDLINE"}

\* is_content(): the results the description allows.  ID and STRING are content,
\* a type without payload and OPERATOR are not; for FLOAT, INF and INT the
\* description leaves the answer to the grammar.
is_content(t) ==
    CASE t.type \in {"ID", "STRING"} -> {TRUE}
      [] t.type \in {"FLOAT", "INF", "INT"} -> BOOLEAN
      [] OTHER -> {FALSE}

\* str(): the type's label and, when there is one, the payload
str(t) ==
    IF exists(t)
    THEN <<token_type_str(t.type), get(t)>>
    ELSE <<token_type_str(t.type)>>

(***************************************************************************)
(* State                                                                   *)
(*   tok   the Token object a holder has, or NoToken                       *)
(*   ctor  which constructor built it                                      *)
(*   args  the arguments that constructor was given                        *)
(*   call  the last call: its name, argument, outcome and returned value   *)
(***************************************************************************)
Returned(op, arg, ret) ==
    [op |-> op, arg |-> arg, outcome |-> "returned", ret |-> ret]

Init ==
    /\ tok = NoToken
    /\ ctor = "none"
    /\ args = NoArgs
    /\ call = Returned("none", "none", "none")

(***************************************************************************)
(* The free functions.  The lexer classifies a type before it builds the   *)
(* token for it, so the calls are taken while no token is held.            *)
(***************************************************************************)
Call_token_type_str ==
    /\ tok = NoToken
    /\ \E type \in token_type \cup {Unenumerated} :
        /\ call' = Returned("token_type_str", type, token_type_str(type))
        /\ UNCHANGED <<tok, ctor, args>>

Call_token_needs_payload ==
    /\ tok = NoToken
    /\ \E type \in token_type \cup {Unenumerated} :
        /\ call' = Returned("token_needs_payload", type, token_needs_payload(type))
        /\ UNCHANGED <<tok, ctor, args>>

(***************************************************************************)
(* Construction and destruction                                            *)
(***************************************************************************)
Construct_default ==
    /\ tok = NoToken
    /\ tok' = Token_default
    /\ ctor' = "Token()"
    /\ args' = NoArgs
    /\ call' = Returned("Token()", "none", "constructed")

Construct_type ==
    /\ tok = NoToken
    /\ \E loc \in Locations, type \in token_type :
        /\ tok' = Token_type(loc.file, loc.line, loc.line_offset, loc.length, type)
        /\ args' = [location |-> loc, type |-> type]
    /\ ctor' = "Token(type)"
    /\ call' = Returned("Token(type)", "none", "constructed")

Construct_value ==
    /\ tok = NoToken
    /\ \E loc \in Locations, type \in token_type, value \in Payloads :
        /\ tok' = Token_value(loc.file, loc.line, loc.line_offset, loc.length,
                              type, value)
        /\ args' = [location |-> loc, type |-> type, value |-> value]
    /\ ctor' = "Token(type, value)"
    /\ call' = Returned("Token(type, value)", "none", "constructed")

\* ~Token() = default
Destroy ==
    /\ tok # NoToken
    /\ tok' = NoToken
    /\ ctor' = "none"
    /\ args' = NoArgs
    /\ call' = Returned("~Token()", "none", "destroyed")

(***************************************************************************)
(* The const member functions, called on the held token                    *)
(***************************************************************************)
Call_exists ==
    /\ tok # NoToken
    /\ call' = Returned("exists", "this", exists(tok))
    /\ UNCHANGED <<tok, ctor, args>>

Call_is_endmarker ==
    /\ tok # NoToken
    /\ call' = Returned("is_endmarker", "this", is_endmarker(tok))
    /\ UNCHANGED <<tok, ctor, args>>

Call_is_content ==
    /\ tok # NoToken
    /\ \E r \in is_content(tok) : call' = Returned("is_content", "this", r)
    /\ UNCHANGED <<tok, ctor, args>>

\* a get() that hands its string out by moving it
Call_get_moving ==
    /\ tok # NoToken
    /\ call' = Returned("get", "this", get(tok))
    /\ tok' = [tok EXCEPT !.value = <<>>]
    /\ UNCHANGED <<ctor, args>>

Call_get ==
    /\ tok # NoToken
    /\ call' = Returned("get", "this", get(tok))
    /\ UNCHANGED <<tok, ctor, args>>

Call_str ==
    /\ tok # NoToken
    /\ call' = Returned("str", "this", str(tok))
    /\ UNCHANGED <<tok, ctor, args>>

(***************************************************************************)
(* The public data members location and type: read and assigned by a       *)
(* holder.  value is protected and has no such access.                     *)
(***************************************************************************)
Read_location ==
    /\ tok # NoToken
    /\ call' = Returned("read location", "this", tok.location)
    /\ UNCHANGED <<tok, ctor, args>>

Read_type ==
    /\ tok # NoToken
    /\ call' = Returned("read type", "this", tok.type)
    /\ UNCHANGED <<tok, ctor, args>>

Assign_location ==
    /\ tok # NoToken
    /\ \E loc \in Locations :
        /\ tok' = [tok EXCEPT !.location = loc]
        /\ call' = Returned("assign location", "this", "assigned")
    /\ UNCHANGED <<ctor, args>>

Assign_type ==
    /\ tok # NoToken
    /\ \E type \in token_type :
        /\ tok' = [tok EXCEPT !.type = type]
        /\ call' = Returned("assign type", "this", "assigned")
    /\ UNCHANGED <<ctor, args>>

Next ==
    \/ Call_token_type_str
    \/ Call_token_needs_payload
    \/ Construct_default
    \/ Construct_type
    \/ Construct_value
    \/ Destroy
    \/ Call_exists
    \/ Call_is_endmarker
    \/ Call_is_content
    \/ Call_get
    \/ Call_str
    \/ Read_location
    \/ Read_type
    \/ Assign_location
    \/ Assign_type

Spec == Init /\ [][Next]_vars

(***************************************************************************)
(* Vocabulary of the properties                                            *)
(***************************************************************************)
PayloadTypes == {"FLOAT", "ID", "INF", "INT", "OPERATOR", "STRING"}

EndMarkers == {"ENDLINE", "ENDFILE"}

BracketTypes ==
    {"LANGLE", "RANGLE", "LBRACE", "RBRACE", "LBRACKET", "RBRACKET",
     "LPAREN", "RPAREN"}

StructuralTypes ==
    {"COLON", "COMMA", "DOT", "ELLIPSIS", "BANG", "AT"} \cup BracketTypes

KeywordTypes == {"AS", "FROM", "IMPORT", "PASS"}

ConstructorOps == {"Token()", "Token(type)", "Token(type, value)"}

QueryOps ==
    {"exists", "is_endmarker", "is_content", "get", "str",
     "read location", "read type"}

\* the punctuation a structural type stands for
Glyph(type) ==
    CASE type = "COLON" -> <<":">>
      [] type = "COMMA" -> <<",">>
      [] type = "DOT" -> <<".">>
      [] type = "ELLIPSIS" -> <<".", ".", ".">>
      [] type = "BANG" -> <<"!">>
      [] type = "AT" -> <<"@">>
      [] type = "LANGLE" -> <<"<">>
      [] type = "RANGLE" -> <<">">>
      [] type = "LBRACE" -> <<"{">>
      [] type = "RBRACE" -> <<"}">>
      [] type = "LBRACKET" -> <<"[">>
      [] type = "RBRACKET" -> <<"]">>
      [] type = "LPAREN" -> <<"(">>
      [] type = "RPAREN" -> <<")">>

Quoted(glyph) == <<"'">> \o glyph \o <<"'">>

\* the lowercase spelling of a keyword
Keyword(type) ==
    CASE type = "AS" -> <<"a", "s">>
      [] type = "FROM" -> <<"f", "r", "o", "m">>
      [] type = "IMPORT" -> <<"i", "m", "p", "o", "r", "t">>
      [] type = "PASS" -> <<"p", "a", "s", "s">>

\* the English name the punctuation types without a glyph label carry
PunctuationWord(type) ==
    CASE type = "COLON" -> <<"c", "o", "l", "o", "n">>
      [] type = "COMMA" -> <<"c", "o", "m", "m", "a">>
      [] type = "DOT" -> <<"d", "o", "t">>
      [] type = "ELLIPSIS" -> <<"e", "l", "l", "i", "p", "s", "i", "s">>

\* the last call was token_type_str on an enumerator
StrCalled == call.op = "token_type_str" /\ call.arg \in token_type

\* the held token still has the type it was constructed with
TypeAsBuilt == ctor # "Token()" /\ tok.type = args.type

(***************************************************************************)
(* C1: over the 29 enumerators, token_needs_payload returns true exactly   *)
(* for FLOAT, ID, INF, INT, OPERATOR and STRING, false for the 23 others.  *)
(***************************************************************************)
C1_NeedsPayloadExact ==
    /\ Cardinality(token_type) = 29
    /\ Cardinality(token_type \ PayloadTypes) = 23
    /\ (call.op = "token_needs_payload" /\ call.arg \in token_type)
           => (call.ret = (call.arg \in PayloadTypes))

C1_Witness ==
    /\ call.op = "token_needs_payload"
    /\ call.arg = "INF"
    /\ call.ret = TRUE

(***************************************************************************)
(* C2 (as claimed): a token fresh from any constructor, built with any     *)
(* type, has exists() equal to token_needs_payload(type).                  *)
(***************************************************************************)
C2_ExistsMatchesNeedsPayload ==
    (tok # NoToken /\ call.op \in ConstructorOps)
        => (exists(tok) = token_needs_payload(tok.type))

(***************************************************************************)
(* C3 (as claimed): no token comes out of the constructor without value    *)
(* for a type that needs a payload, nor out of the constructor with value  *)
(* for a type that needs none.                                             *)
(***************************************************************************)
C3_MismatchRejected ==
    tok # NoToken =>
        /\ ~(ctor = "Token(type)" /\ token_needs_payload(args.type))
        /\ ~(ctor = "Token(type, value)" /\ ~token_needs_payload(args.type))

C5_GetWithoutPayloadFails ==
    (tok # NoToken /\ call.op = "get" /\ ~exists(tok))
        => call.outcome = "error"

(***************************************************************************)
(* C6: is_endmarker() is true exactly when the token's type is ENDLINE or  *)
(* ENDFILE, whatever its value and location.                               *)
(***************************************************************************)
C6_EndmarkerExact ==
    (tok # NoToken /\ call.op = "is_endmarker")
        => (call.ret = (tok.type \in EndMarkers))

C6_Witness ==
    /\ tok # NoToken
    /\ call.op = "is_endmarker"
    /\ tok.type = "ENDLINE"
    /\ call.ret = TRUE

C8_LabelTotal ==
    StrCalled =>
        /\ Len(call.ret) > 0
        /\ call.ret # unhandled_token_type
        /\ call.arg = "LPAREN" => call.ret = <<"'", "(", "'">>
        /\ call.arg = "INVALID" => call.ret = <<"i", "n", "v", "a", "l", "i", "d">>

C8_Witness ==
    /\ StrCalled
    /\ call.arg = "LPAREN"
    /\ call.ret = <<"'", "(", "'">>

(***************************************************************************)
(* C9 (as claimed): the label of every structural type is its glyph in     *)
(* single quotes, the label of every keyword its lowercase spelling, the   *)
(* label of INVALID "invalid".                                             *)
(***************************************************************************)
C9_LabelFormByClass ==
    StrCalled =>
        /\ call.arg \in StructuralTypes => call.ret = Quoted(Glyph(call.arg))
        /\ call.arg \in KeywordTypes => call.ret = Keyword(call.arg)
        /\ call.arg = "INVALID" => call.ret = <<"i", "n", "v", "a", "l", "i", "d">>

(***************************************************************************)
(* C9 (amended): the label of each of the eight bracket types is its glyph *)
(* in single quotes; the label of BANG and of AT is the bare glyph; the    *)
(* label of COLON, COMMA, DOT and ELLIPSIS is the lowercase English word;  *)
(* the label of every keyword is its lowercase spelling; the label of      *)
(* INVALID is "invalid".                                                   *)
(***************************************************************************)
C9_LabelFormAsCoded ==
    StrCalled =>
        /\ call.arg \in BracketTypes => call.ret = Quoted(Glyph(call.arg))
        /\ call.arg \in {"BANG", "AT"} => call.ret = Glyph(call.arg)
        /\ call.arg \in {"COLON", "COMMA", "DOT", "ELLIPSIS"}
               => call.ret = PunctuationWord(call.arg)
        /\ call.arg \in KeywordTypes => call.ret = Keyword(call.arg)
        /\ call.arg = "INVALID" => call.ret = <<"i", "n", "v", "a", "l", "i", "d">>

C9_Witness ==
    /\ StrCalled
    /\ call.arg = "COLON"
    /\ call.ret = <<"c", "o", "l", "o", "n">>

(***************************************************************************)
(* C10: token_type_str is injective over the enumerators: the label of an  *)
(* enumerator is the label of no other enumerator, and is not the          *)
(* fallback label.                                                         *)
(***************************************************************************)
C10_LabelInjective ==
    StrCalled =>
        /\ \A other \in token_type \ {call.arg} :
               token_type_str(other) # call.ret
        /\ call.ret # unhandled_token_type
        /\ token_type_str(Unenumerated) # call.ret

C10_Witness ==
    /\ StrCalled
    /\ call.arg = "INF"
    /\ call.ret = <<"i", "n", "f">>

====
